---- MODULE Spec2Model ----
(***************************************************************************)
(* Model of traffic.core.flight.Flight: the time slicing methods, at and   *)
(* at_ratio, the gap split with and without condition, the interval        *)
(* operators, count-based resampling, clipping, labelling and the          *)
(* combinators has, sum, next, final and all.                              *)
(*                                                                         *)
(* A table (pandas DataFrame) is a sequence of rows; a row is a record     *)
(*   t   : the timestamp, an integer number of clock ticks,                *)
(*   x   : the position along one axis, or NoPos when longitude is null,   *)
(*   id  : the position the row had in the flight under study,             *)
(*   tag : the value of the column written by label or by all ("absent"    *)
(*         when the table has no such column).                             *)
(* Tables live in a heap (a sequence of tables): a Flight is the index of  *)
(* the table it wraps, so that two flights wrapping the same DataFrame     *)
(* object are two equal indices.  heap[1] is the table of the flight F     *)
(* the operations are called on.                                           *)
(***************************************************************************)
EXTENDS Integers, Sequences, FiniteSets, TLC

VARIABLES heap, op, arg, res

vars == <<heap, op, arg, res>>

\* ---------------------------------------------------------------- bounds
MaxRows == 3
MaxT == 4
MaxDelta == 3
MaxSplitRows == 4
MaxSplitT == 4
MaxGap == 2
MaxIntervalT == 4
MaxClipRows == 3
MaxClipT == 3
MaxX == 2
MaxN == 3
MaxFrameRows == 2
MaxFrameT == 1
RatioSteps == 4
MaxWinRows == 4
MaxWinT == 4
MaxRateRows == 3
MaxRateT == 3
MaxRule == 2
MaxIterRows == 2
MaxIterT == 2

\* The default gap of split, 10 minutes, in ticks of one second.
TenMinutes == 600

\* Clock ticks per sampling period of the positioned flights: datetime
\* resolves the instants at which a path crosses the boundary of a shape,
\* which fall between two samples.
TicksPerSample == 6

NoPos == -1

\* at(time=None): no instant given.
NoTime == -1
Times == 0..MaxT
Deltas == 0..MaxDelta
SplitGaps == (0..MaxGap) \cup {TenMinutes}
Gaps == 0..MaxGap
Counts == 0..MaxN
Shapes == {sh \in [lo : 0..MaxX, hi : 0..MaxX] : sh.lo <= sh.hi}

\* ------------------------------------------------------- small utilities
Min2(a, b) == IF a <= b THEN a ELSE b
Max2(a, b) == IF a >= b THEN a ELSE b

SeqMin(s) == CHOOSE m \in {s[i] : i \in 1..Len(s)} :
                 \A i \in 1..Len(s) : m <= s[i]
SeqMax(s) == CHOOSE m \in {s[i] : i \in 1..Len(s)} :
                 \A i \in 1..Len(s) : m >= s[i]

Timestamps(data) == [i \in 1..Len(data) |-> data[i].t]
Ids(data) == [i \in 1..Len(data) |-> data[i].id]

Row(t, x, id) == [t |-> t, x |-> x, id |-> id, tag |-> "absent"]

\* An Optional[DataFrame]: isNone marks the None result.
NoData == [isNone |-> TRUE, data |-> << >>]
Some(d) == [isNone |-> FALSE, data |-> d]

\* ----------------------------------------------------- Flight properties
start(data) == SeqMin(Timestamps(data))
stop(data) == SeqMax(Timestamps(data))
duration(data) == stop(data) - start(data)

\* ------------------------------------------------ time slicing (pure)
between_closed_left(data, t1, t2, strict) ==
    LET Keep(r) == IF strict THEN t1 <= r.t /\ r.t < t2
                             ELSE t1 <= r.t /\ r.t <= t2
        df == SelectSeq(data, Keep)
    IN  IF Len(df) = 0 THEN NoData ELSE Some(df)

between(data, t1, t2, strict) ==
    LET Keep(r) == IF strict THEN t1 < r.t /\ r.t < t2
                             ELSE t1 <= r.t /\ r.t <= t2
        df == SelectSeq(data, Keep)
    IN  IF Len(df) = 0 THEN NoData ELSE Some(df)

before(data, time, strict) == between(data, start(data), time, strict)

after(data, time, strict) == between(data, time, stop(data), strict)

skip_unchecked(data, delta) ==
    LET bound == start(data) + delta
        Keep(r) == r.t >= bound
    IN  Some(SelectSeq(data, Keep))

skip(data, delta) ==
    LET bound == start(data) + delta
        Keep(r) == r.t >= bound
        df == SelectSeq(data, Keep)
    IN  IF Len(df) = 0 THEN NoData ELSE Some(df)

first_inclusive(data, delta) ==
    LET bound == start(data) + delta
        Keep(r) == r.t <= bound
        df == SelectSeq(data, Keep)
    IN  IF Len(df) = 0 THEN NoData ELSE Some(df)

first(data, delta) ==
    LET bound == start(data) + delta
        Keep(r) == r.t < bound
        df == SelectSeq(data, Keep)
    IN  IF Len(df) = 0 THEN NoData ELSE Some(df)

shorten(data, delta) ==
    LET bound == stop(data) - delta
        Keep(r) == r.t <= bound
        df == SelectSeq(data, Keep)
    IN  IF Len(df) = 0 THEN NoData ELSE Some(df)

last(data, delta) ==
    LET bound == stop(data) - delta
        Keep(r) == r.t > bound
        df == SelectSeq(data, Keep)
    IN  IF Len(df) = 0 THEN NoData ELSE Some(df)

\* ------------------------------------------------------------ results
\* The outcome of a call: "none" (None), "flight" (one Flight), "iter"
\* (the flights a FlightIterator yields, in order) or "raise".
\* ids are the heap indices of the tables the returned flights wrap.
Result(kind, ids) == [kind |-> kind, ids |-> ids]

\* A call returning Optional[Flight]: self.__class__(df) wraps the new
\* DataFrame df, which is stored at heap index 2.
ReturnOptional(name, a, r) ==
    /\ op' = name
    /\ arg' = a
    /\ heap' = IF r.isNone THEN <<heap[1]>> ELSE <<heap[1], r.data>>
    /\ res' = IF r.isNone THEN Result("none", << >>)
                          ELSE Result("flight", <<2>>)

NoArg == [t1 |-> 0, t2 |-> 0, strict |-> FALSE, n |-> 0]
Arg(t1, t2, strict, n) == [t1 |-> t1, t2 |-> t2, strict |-> strict, n |-> n]

\* ------------------------------------------------------------ actions
Between ==
    \E t1 \in Times, t2 \in Times, strict \in BOOLEAN :
        ReturnOptional("between", Arg(t1, t2, strict, 0),
                       between(heap[1], t1, t2, strict))

Before ==
    \E time \in Times, strict \in BOOLEAN :
        ReturnOptional("before", Arg(0, time, strict, 0),
                       before(heap[1], time, strict))

After ==
    \E time \in Times, strict \in BOOLEAN :
        ReturnOptional("after", Arg(time, 0, strict, 0),
                       after(heap[1], time, strict))

Skip ==
    \E d \in Deltas :
        ReturnOptional("skip", Arg(0, 0, FALSE, d), skip(heap[1], d))

First ==
    \E d \in Deltas :
        ReturnOptional("first", Arg(0, 0, FALSE, d), first(heap[1], d))

Shorten ==
    \E d \in Deltas :
        ReturnOptional("shorten", Arg(0, 0, FALSE, d), shorten(heap[1], d))

Last ==
    \E d \in Deltas :
        ReturnOptional("last", Arg(0, 0, FALSE, d), last(heap[1], d))

\* The chained call F.before(t2).after(t1), both with the default
\* strict=True.  after is looked up on the result of before: on None the
\* attribute lookup raises.  The table of the intermediate flight is kept
\* at heap index 2.
BeforeAfter ==
    \E t1 \in Times, t2 \in Times :
        LET b == before(heap[1], t2, TRUE)
            a == IF b.isNone THEN NoData ELSE after(b.data, t1, TRUE)
        IN  /\ op' = "before_after"
            /\ arg' = Arg(t1, t2, TRUE, 0)
            /\ heap' = IF b.isNone THEN <<heap[1]>>
                       ELSE IF a.isNone THEN <<heap[1], b.data>>
                       ELSE <<heap[1], b.data, a.data>>
            /\ res' = IF b.isNone THEN Result("raise", << >>)
                      ELSE IF a.isNone THEN Result("none", << >>)
                      ELSE Result("flight", <<3>>)

\* ------------------------------------------------------- at, at_ratio
\* A forward fill that takes the first position known.
ffill_first(data) ==
    [i \in 1..Len(data) |->
        LET known == {j \in 1..i : data[j].x # NoPos}
        IN  IF known = {} THEN data[i]
            ELSE [data[i] EXCEPT !.x =
                     data[CHOOSE j \in known : \A m \in known : j <= m].x]]

\* DataFrame.ffill(): a null position takes the last position known in
\* the rows above it.
ffill(data) ==
    [i \in 1..Len(data) |->
        LET known == {j \in 1..i : data[j].x # NoPos}
        IN  IF known = {} THEN data[i]
            ELSE [data[i] EXCEPT !.x =
                     data[CHOOSE j \in known : \A m \in known : m <= j].x]]

\* What at and at_ratio return: None ("none"), a Position on one row
\* ("position"; indexed when the timestamp left the columns for the
\* index), df.loc[index] of several rows ("several") or an exception.
Outcome(kind, rows, indexed) ==
    [kind |-> kind, ids |-> << >>, rows |-> rows, indexed |-> indexed]

at_unfilled(data, time) ==
    IF time = NoTime
    THEN Outcome("position", <<data[Len(data)]>>, FALSE)
    ELSE LET Hit(r) == r.t = time
             df == SelectSeq(data, Hit)
         IN  IF Len(df) = 0 THEN Outcome("none", << >>, FALSE)
             ELSE IF Len(df) = 1 THEN Outcome("position", df, TRUE)
             ELSE Outcome("several", df, TRUE)

\* Flight.at(time).
at(data, time) ==
    IF time = NoTime
    THEN Outcome("position", <<ffill(data)[Len(data)]>>, FALSE)
    ELSE LET Hit(r) == r.t = time
             df == SelectSeq(data, Hit)
         IN  IF Len(df) = 0 THEN Outcome("none", << >>, FALSE)
             ELSE IF Len(df) = 1 THEN Outcome("position", df, TRUE)
             ELSE Outcome("several", df, TRUE)

\* The instant start + ratio * duration for ratio = k / RatioSteps, at
\* the resolution of the clock.
ratio_instant(data, k) == start(data) + (k * duration(data)) \div RatioSteps

at_ratio_strict(data, k) ==
    IF k < 0 \/ k > RatioSteps THEN Outcome("RuntimeError", << >>, FALSE)
    ELSE LET subset == between(data, start(data), ratio_instant(data, k),
                               TRUE)
         IN  IF subset.isNone THEN Outcome("raise", << >>, FALSE)
             ELSE at(subset.data, NoTime)

\* Flight.at_ratio(ratio) for ratio = k / RatioSteps.
at_ratio(data, k) ==
    IF k < 0 \/ k > RatioSteps THEN Outcome("RuntimeError", << >>, FALSE)
    ELSE LET subset == between(data, start(data), ratio_instant(data, k),
                               FALSE)
         IN  IF subset.isNone THEN Outcome("raise", << >>, FALSE)
             ELSE at(subset.data, NoTime)

At ==
    \E time \in Times \cup {NoTime} :
        /\ op' = "at"
        /\ arg' = Arg(time, 0, FALSE, 0)
        /\ res' = at(heap[1], time)
        /\ UNCHANGED heap

AtRatio ==
    \E k \in (-1)..(RatioSteps + 1) :
        /\ op' = "at_ratio"
        /\ arg' = Arg(0, 0, FALSE, k)
        /\ res' = at_ratio(heap[1], k)
        /\ UNCHANGED heap

\* ---------------------------------------------------------- intervals
\* Interval(start, stop), start <= stop.
Interval(s, e) == [start |-> s, stop |-> e]

\* Interval.__and__: the overlapping range, or no overlap (isNone) when
\* max(starts) >= min(stops).
Interval_and(a, b) ==
    LET s == Max2(a.start, b.start)
        e == Min2(a.stop, b.stop)
    IN  IF s >= e THEN [isNone |-> TRUE, start |-> 0, stop |-> 0]
                  ELSE [isNone |-> FALSE, start |-> s, stop |-> e]

Interval_sub_keep_covered(a, b) ==
    IF b.stop <= a.start \/ b.start >= a.stop THEN <<a>>
    ELSE IF a.start < b.start /\ b.stop < a.stop
         THEN <<Interval(a.start, b.start), Interval(b.stop, a.stop)>>
    ELSE IF b.start <= a.start THEN <<Interval(b.stop, a.stop)>>
    ELSE <<Interval(a.start, b.start)>>

\* Interval.__sub__: the fragments of a left once b is removed, in order:
\* none when b covers a, a itself when b is disjoint from a, two when b is
\* strictly inside a, one when b overlaps one boundary of a.
Interval_sub(a, b) ==
    IF b.start <= a.start /\ a.stop <= b.stop THEN << >>
    ELSE IF b.stop <= a.start \/ b.start >= a.stop THEN <<a>>
    ELSE IF a.start < b.start /\ b.stop < a.stop
         THEN <<Interval(a.start, b.start), Interval(b.stop, a.stop)>>
    ELSE IF b.start <= a.start THEN <<Interval(b.stop, a.stop)>>
    ELSE <<Interval(a.start, b.start)>>

\* Flight.__getitem__ with an Interval key.
getitem_Interval(data, key) == between(data, key.start, key.stop, TRUE)

getitem_IntervalCollection_strict(data, key) ==
    LET seg(k) == between(data, key[k].start, key[k].stop, TRUE)
        Kept(k) == ~seg(k).isNone
        kept == SelectSeq([k \in 1..Len(key) |-> k], Kept)
    IN  [j \in 1..Len(kept) |-> seg(kept[j]).data]

\* Flight.__getitem__ with an IntervalCollection key: the tables of the
\* segments yielded, one per interval whose slice is not None.
getitem_IntervalCollection(data, key) ==
    LET seg(k) == between(data, key[k].start, key[k].stop, FALSE)
        Kept(k) == ~seg(k).isNone
        kept == SelectSeq([k \in 1..Len(key) |-> k], Kept)
    IN  [j \in 1..Len(kept) |-> seg(kept[j]).data]

\* Flight.__getitem__ with the Interval key, alone or as the only
\* interval of an IntervalCollection.
GetItem ==
    \E s1 \in 0..MaxWinT, s2 \in 0..MaxWinT, collection \in BOOLEAN :
        /\ s1 <= s2
        /\ op' = "getitem"
        /\ arg' = [key |-> Interval(s1, s2), collection |-> collection]
        /\ LET r == getitem_Interval(heap[1], Interval(s1, s2))
               segs == getitem_IntervalCollection(heap[1], <<Interval(s1, s2)>>)
           IN  IF collection
               THEN /\ heap' = <<heap[1]>> \o segs
                    /\ res' = Result("iter", [k \in 1..Len(segs) |-> k + 1])
               ELSE /\ heap' = IF r.isNone THEN <<heap[1]>>
                                          ELSE <<heap[1], r.data>>
                    /\ res' = IF r.isNone THEN Result("none", << >>)
                                          ELSE Result("flight", <<2>>)

\* Flight.__sub__ with a Flight or an Interval spanning s1..s2.
Sub ==
    \E s1 \in Times, s2 \in Times :
        /\ s1 <= s2
        /\ LET left == Interval(start(heap[1]), stop(heap[1]))
               right == Interval(s1, s2)
               difference == Interval_sub(left, right)
               segs == getitem_IntervalCollection(heap[1], difference)
           IN  /\ op' = "sub"
               /\ arg' = Arg(s1, s2, FALSE, 0)
               /\ heap' = <<heap[1]>> \o segs
               /\ res' = Result("iter", [k \in 1..Len(segs) |-> k + 1])

\* Flight.__and__ with a Flight spanning s1..s2.
And ==
    \E s1 \in Times, s2 \in Times :
        /\ s1 <= s2
        /\ LET left == Interval(start(heap[1]), stop(heap[1]))
               right == Interval(s1, s2)
               concurrency == Interval_and(left, right)
           IN  ReturnOptional("and", Arg(s1, s2, FALSE, 0),
                   IF concurrency.isNone THEN NoData
                   ELSE getitem_Interval(heap[1], concurrency))

\* The interval operators on their own.
Intervals ==
    {i \in [start : 0..MaxIntervalT, stop : 0..MaxIntervalT] :
        i.start <= i.stop}

Difference ==
    \E a \in Intervals, b \in Intervals :
        /\ op' = "difference"
        /\ arg' = [a |-> a, b |-> b]
        /\ res' = Result("intervals", Interval_sub(a, b))
        /\ UNCHANGED heap

Intersection ==
    \E a \in Intervals, b \in Intervals :
        /\ op' = "intersection"
        /\ arg' = [a |-> a, b |-> b]
        /\ res' = Result("interval", Interval_and(a, b))
        /\ UNCHANGED heap

\* ------------------------------------------------------------ gap split
\* data.timestamp.diff(): the delta of row i (i >= 2) to the row before it.
diff(data) == [i \in 2..Len(data) |-> data[i].t - data[i - 1].t]

\* diff.argmax(): the first row carrying the largest delta.
argmax(data) ==
    CHOOSE i \in 2..Len(data) :
        /\ \A j \in 2..Len(data) : diff(data)[j] <= diff(data)[i]
        /\ \A j \in 2..(i - 1) : diff(data)[j] < diff(data)[i]

SubTable(data, lo, hi) == [i \in 1..(hi - lo + 1) |-> data[lo + i - 1]]

RECURSIVE _split_at_equal(_, _)
_split_at_equal(data, delta) ==
    IF Len(data) < 2 THEN << >>
    ELSE LET am == argmax(data)
             max_ == diff(data)[am]
         IN  IF max_ >= delta
             THEN _split_at_equal(SubTable(data, 1, am - 1), delta)
                  \o _split_at_equal(SubTable(data, am, Len(data)), delta)
             ELSE <<data>>

\* The sequence of DataFrames _split yields for the gap `delta`.
RECURSIVE _split(_, _)
_split(data, delta) ==
    IF Len(data) < 2 THEN << >>
    ELSE LET am == argmax(data)
             max_ == diff(data)[am]
         IN  IF max_ > delta
             THEN _split(SubTable(data, 1, am - 1), delta)
                  \o _split(SubTable(data, am, Len(data)), delta)
             ELSE <<data>>

_split_parts_short(data) ==
    <<SubTable(data, 1, argmax(data) - 2),
      SubTable(data, argmax(data), Len(data))>>

\* The two tables passed to the recursive calls of _split:
\* data.iloc[:argmax] and data.iloc[argmax:].
_split_parts(data) ==
    <<SubTable(data, 1, argmax(data) - 1),
      SubTable(data, argmax(data), Len(data))>>

\* Every call of _split made for _split(data, delta), in the order the
\* calls are entered, with the depth of the recursion at the call.
RECURSIVE _split_calls(_, _, _)
_split_calls(data, delta, depth) ==
    <<[data |-> data, depth |-> depth]>>
        \o (IF Len(data) < 2 THEN << >>
            ELSE IF diff(data)[argmax(data)] > delta
            THEN _split_calls(_split_parts(data)[1], delta, depth + 1)
                 \o _split_calls(_split_parts(data)[2], delta, depth + 1)
            ELSE << >>)

\* Flight.split(value, unit) without condition: one Flight per DataFrame
\* of _split.  When no gap exceeds delta, _split yields the DataFrame it
\* was given, i.e. self.data: the flight yielded wraps heap[1] itself.
\* The slices data.iloc[...] are new DataFrame objects.
Split ==
    \E g \in SplitGaps :
        LET chunks == _split(heap[1], g)
            whole == chunks = <<heap[1]>>
        IN  /\ op' = "split"
            /\ arg' = Arg(0, 0, FALSE, g)
            /\ heap' = IF whole THEN <<heap[1]>> ELSE <<heap[1]>> \o chunks
            /\ res' = IF whole THEN Result("iter", <<1>>)
                      ELSE Result("iter", [k \in 1..Len(chunks) |-> k + 1])

\* The loop of Flight.split(value, unit, condition) over the DataFrames
\* of _split: chunks k.. are still to be visited, previous is the table
\* accumulated (when hasPrev), calls counts the calls of condition made
\* and cond[c] is what call c returns, out the tables yielded so far.
RECURSIVE split_condition_inverted(_, _, _, _, _, _, _)
split_condition_inverted(chunks, k, previous, hasPrev, cond, calls, out) ==
    IF k > Len(chunks)
    THEN IF hasPrev THEN Append(out, previous) ELSE out
    ELSE IF ~hasPrev
    THEN split_condition_inverted(chunks, k + 1, chunks[k], TRUE, cond,
                                  calls, out)
    ELSE IF ~cond[calls + 1]
    THEN split_condition_inverted(chunks, k + 1, chunks[k], TRUE, cond,
                                  calls + 1, Append(out, previous))
    ELSE split_condition_inverted(chunks, k + 1, previous \o chunks[k], TRUE,
                                  cond, calls + 1, out)

RECURSIVE split_condition(_, _, _, _, _, _, _)
split_condition(chunks, k, previous, hasPrev, cond, calls, out) ==
    IF k > Len(chunks)
    THEN IF hasPrev THEN Append(out, previous) ELSE out
    ELSE IF ~hasPrev
    THEN split_condition(chunks, k + 1, chunks[k], TRUE, cond, calls, out)
    ELSE IF cond[calls + 1]
    THEN split_condition(chunks, k + 1, chunks[k], TRUE, cond, calls + 1,
                         Append(out, previous))
    ELSE split_condition(chunks, k + 1, previous \o chunks[k], TRUE, cond,
                         calls + 1, out)

\* Flight.split(value, unit, condition): condition is any callable, given
\* by the value it returns at each of its calls.  A flight yielded wraps
\* the DataFrame of _split (self.data itself when no gap exceeds delta) or
\* the new DataFrame of pd.concat.
SplitCondition ==
    \E g \in SplitGaps :
        LET chunks == _split(heap[1], g)
            whole == chunks = <<heap[1]>>
        IN  \E cond \in [1..(Len(chunks) - 1) -> BOOLEAN] :
                LET segs == split_condition(chunks, 1, << >>, FALSE, cond,
                                            0, << >>)
                IN  /\ op' = "split_condition"
                    /\ arg' = [t1 |-> 0, t2 |-> 0, strict |-> FALSE,
                               n |-> g, cond |-> cond]
                    /\ heap' = IF whole THEN <<heap[1]>>
                               ELSE <<heap[1]>> \o segs
                    /\ res' = IF whole THEN Result("iter", <<1>>)
                              ELSE Result("iter",
                                       [k \in 1..Len(segs) |-> k + 1])

\* ------------------------------------------------------ sliding windows
RECURSIVE sliding_windows_twice(_, _, _)
sliding_windows_twice(data, duration_, step_) ==
    LET first_ == first(data, duration_)
        after_ == after(data, start(data) + step_, TRUE)
    IN  IF first_.isNone THEN << >>
        ELSE IF after_.isNone THEN <<first_.data, first_.data>>
        ELSE <<first_.data>>
                 \o sliding_windows_twice(after_.data, duration_, step_)

\* Flight.sliding_windows(duration, step): the tables of the windows
\* yielded, in order.
RECURSIVE sliding_windows(_, _, _)
sliding_windows(data, duration_, step_) ==
    LET first_ == first(data, duration_)
        after_ == after(data, start(data) + step_, TRUE)
    IN  IF first_.isNone THEN << >>
        ELSE IF after_.isNone THEN <<first_.data>>
        ELSE <<first_.data>> \o sliding_windows(after_.data, duration_, step_)

\* The flights on which sliding_windows is called in turn: self, then the
\* remainder passed to each recursive call that yields a window.
RECURSIVE sliding_remainders(_, _, _)
sliding_remainders(data, duration_, step_) ==
    LET first_ == first(data, duration_)
        after_ == after(data, start(data) + step_, TRUE)
    IN  IF first_.isNone THEN << >>
        ELSE IF after_.isNone THEN <<data>>
        ELSE <<data>> \o sliding_remainders(after_.data, duration_, step_)

\* The test that ends the recursion: "first" when first(duration) is None,
\* "after" when after(start + step) is None.
RECURSIVE sliding_stop(_, _, _)
sliding_stop(data, duration_, step_) ==
    LET first_ == first(data, duration_)
        after_ == after(data, start(data) + step_, TRUE)
    IN  IF first_.isNone THEN "first"
        ELSE IF after_.isNone THEN "after"
        ELSE sliding_stop(after_.data, duration_, step_)

SlidingWindows ==
    \E d \in Deltas, st \in Deltas :
        LET wins == sliding_windows(heap[1], d, st)
        IN  /\ op' = "sliding_windows"
            /\ arg' = Arg(d, st, FALSE, 0)
            /\ heap' = <<heap[1]>> \o wins
            /\ res' = Result("iter", [k \in 1..Len(wins) |-> k + 1])

\* ------------------------------------------------- count-based resample
\* pd.date_range(start, stop, periods=n): n evenly spaced instants, at the
\* resolution of the clock.
date_range(t1, t2, n) ==
    [i \in 1..n |-> IF n = 1 THEN t1 ELSE t1 + ((i - 1) * (t2 - t1)) \div (n - 1)]

\* handle_last_position: data.sort_values("timestamp"), for a table
\* without a last_position column.
IsSortedPerm(data, f) ==
    /\ \A i \in 1..Len(data), j \in 1..Len(data) : i # j => f[i] # f[j]
    /\ \A i \in 2..Len(data) : data[f[i - 1]].t <= data[f[i]].t

sort_values(data) ==
    LET f == CHOOSE g \in [1..Len(data) -> 1..Len(data)] :
                 /\ IsSortedPerm(data, g)
                 /\ \A i \in 2..Len(data) :
                      data[g[i - 1]].t = data[g[i]].t => g[i - 1] < g[i]
    IN  [i \in 1..Len(data) |-> data[f[i]]]

HasDuplicates(data) ==
    \E i \in 1..Len(data), j \in 1..Len(data) : i # j /\ data[i].t = data[j].t

\* Index.get_indexer(target, method="nearest") on an increasing index: the
\* row nearest to the instant t, the later one when two are as near.
nearest(data, t) ==
    CHOOSE i \in 1..Len(data) :
        \A j \in 1..Len(data) :
            LET di == IF data[i].t >= t THEN data[i].t - t ELSE t - data[i].t
                dj == IF data[j].t >= t THEN data[j].t - t ELSE t - data[j].t
            IN  di < dj \/ (di = dj /\ data[j].t <= data[i].t)

\* Flight.resample(rule) for an integer rule.  DataFrame.reindex raises
\* ValueError on an index with duplicate labels.
resample(data, rule) ==
    LET new_index == date_range(start(data), stop(data), rule)
        sorted == sort_values(data)
    IN  IF Timestamps(sorted) = new_index
        THEN [raised |-> FALSE, data |-> sorted]
        ELSE IF HasDuplicates(sorted)
        THEN [raised |-> TRUE, data |-> << >>]
        ELSE [raised |-> FALSE,
              data |-> [i \in 1..rule |->
                  [sorted[nearest(sorted, new_index[i])]
                      EXCEPT !.t = new_index[i]]]]

Resample ==
    \E n \in Counts :
        LET r == resample(heap[1], n)
        IN  /\ op' = "resample"
            /\ arg' = Arg(0, 0, FALSE, n)
            /\ heap' = IF r.raised THEN <<heap[1]>> ELSE <<heap[1], r.data>>
            /\ res' = IF r.raised THEN Result("raise", << >>)
                                  ELSE Result("flight", <<2>>)

\* -------------------------------------------------- rate-based resample
\* "% 360" of resample.
FullTurn == 360

\* Column values are held in units of 1 / Unit, so that every linear
\* interpolation over a gap of at most MaxRateT grid steps is exact.
RECURSIVE Factorial(_)
Factorial(n) == IF n <= 1 THEN 1 ELSE n * Factorial(n - 1)
Unit == Factorial(MaxRateT + 1)
Turn == FullTurn * Unit
Abs(a) == IF a < 0 THEN 0 - a ELSE a

\* np.unwrap(p, period=Turn): the correction added to a sample that
\* follows another one at the difference dd.
ph_correct(dd) ==
    LET half == Turn \div 2
        m == ((dd + half) % Turn) - half
        ddmod == IF m = 0 - half /\ dd > 0 THEN half ELSE m
    IN  IF Abs(dd) < half THEN 0 ELSE ddmod - dd

RECURSIVE cumsum_correct(_, _)
cumsum_correct(values, i) ==
    IF i <= 1 THEN 0
    ELSE cumsum_correct(values, i - 1) + ph_correct(values[i] - values[i - 1])

\* Flight.unwrap: the column <feature>_unwrapped of a column without null.
unwrap(values) ==
    [i \in 1..Len(values) |-> values[i] + cumsum_correct(values, i)]

\* DataFrame.resample(rule): the left edges of the bins of width rule,
\* aligned on the origin of the clock, from the bin of the first row to
\* the bin of the last row.
bins(data, rule) ==
    LET lo == (start(data) \div rule) * rule
        hi == (stop(data) \div rule) * rule
    IN  [k \in 1..((hi - lo) \div rule + 1) |-> lo + (k - 1) * rule]

\* The rows of a sorted table that fall in the bin starting at g.
InBin(data, g, rule) ==
    {i \in 1..Len(data) : g <= data[i].t /\ data[i].t < g + rule}

\* Resampler.first(): per bin the value of its first row, null (NoPos) for
\* an empty bin.
Resampler_first(data, values, grid, rule) ==
    [k \in 1..Len(grid) |->
        LET rows == InBin(data, grid[k], rule)
        IN  IF rows = {} THEN NoPos
            ELSE values[CHOOSE i \in rows : \A j \in rows : i <= j]]

\* Index of the last value that is not null at or before i, 0 if none.
LastValid(series, i) ==
    LET valid == {j \in 1..i : series[j] # NoPos}
    IN  IF valid = {} THEN 0 ELSE CHOOSE j \in valid : \A k \in valid : k <= j

\* Index of the first value that is not null at or after i, 0 if none.
FirstValid(series, i) ==
    LET valid == {j \in i..Len(series) : series[j] # NoPos}
    IN  IF valid = {} THEN 0 ELSE CHOOSE j \in valid : \A k \in valid : j <= k

\* DataFrame.ffill() on one column.
Series_ffill(series) ==
    [i \in 1..Len(series) |->
        IF LastValid(series, i) = 0 THEN NoPos
        ELSE series[LastValid(series, i)]]

\* DataFrame.interpolate() on one column: linear between the surrounding
\* values, the last value after it, null before the first value.
Series_interpolate(series) ==
    [i \in 1..Len(series) |->
        LET i0 == LastValid(series, i)
            i1 == FirstValid(series, i)
        IN  IF i0 = 0 THEN NoPos
            ELSE IF i1 = 0 \/ i1 = i0 THEN series[i0]
            ELSE series[i0]
                     + ((series[i1] - series[i0]) * (i - i0)) \div (i1 - i0)]

\* getattr(data[columns], meth)() for the method the column is listed
\* under, "none" for a column under no method.
Series_apply(meth, series) ==
    CASE meth = "interpolate" -> Series_interpolate(series)
      [] meth = "ffill" -> Series_ffill(series)
      [] OTHER -> series

\* how: a string naming the method of every column, or a dictionary that
\* lists the column under meth or under no method ("none").
How(dict, meth) == [dict |-> dict, meth |-> meth]

Hows ==
    {How(FALSE, "interpolate"), How(FALSE, "ffill"),
     How(TRUE, "interpolate"), How(TRUE, "ffill"), How(TRUE, "none")}

\* x % 360 on doubles.  The conversions through radians and the
\* interpolation round their results, so that a value whose exact result
\* is a multiple of 360 is held a little below it (err < 0) or not below
\* it (err = 0); the modulo of a value a little below a multiple of 360 is
\* rounded to 360.
float_mod(v, err) ==
    IF v % Turn = 0 /\ err < 0 THEN Turn ELSE v % Turn

\* 1 for the samples that unwrap has corrected, whose value is rounded.
Rounded(values) ==
    [i \in 1..Len(values) |-> IF cumsum_correct(values, i) # 0 THEN 1 ELSE 0]

\* The same per grid instant: an interpolated value is rounded, a filled
\* value is as the sample it comes from.
RoundedOnGrid(meth, binned) ==
    IF meth = "interpolate"
    THEN [k \in 1..Len(binned) |-> IF binned[k] = NoPos THEN 1 ELSE binned[k]]
    ELSE Series_apply(meth, binned)

\* The modulo of the track column: null stays null.
Wrap(series, rounded, err) ==
    [i \in 1..Len(series) |->
        IF series[i] = NoPos THEN NoPos
        ELSE float_mod(series[i], IF rounded[i] = 1 THEN err ELSE 0)]

\* The column of the rate-based branch.  A track column comes with its
\* track_unwrapped column, which a dictionary does not list, and is
\* assigned from it at the end.
resample_column(data, grid, rule, how, column, err) ==
    LET values == [i \in 1..Len(data) |-> data[i].x]
        meth == IF how.dict THEN "none" ELSE how.meth
    IN  IF column = "track"
        THEN Wrap(Series_apply(meth,
                      Resampler_first(data, unwrap(values), grid, rule)),
                  RoundedOnGrid(meth,
                      Resampler_first(data, Rounded(values), grid, rule)),
                  err)
        ELSE Series_apply(how.meth, Resampler_first(data, values, grid, rule))

\* The id of the row a bin takes its values from, 0 for an empty bin.
BinId(data, g, rule) ==
    LET rows == InBin(data, g, rule)
    IN  IF rows = {} THEN 0
        ELSE data[CHOOSE i \in rows : \A j \in rows : i <= j].id

resample_rate(data, rule, how, column, err) ==
    LET sorted == sort_values(data)
        grid == bins(sorted, rule)
        series == resample_column(sorted, grid, rule, how, column, err)
    IN  [k \in 1..Len(grid) |->
            Row(grid[k], series[k], BinId(sorted, grid[k], rule))]

\* The count-based branch on a table with the column: a track column is
\* unwrapped before the reindex and taken modulo 360 after it.  The id of
\* a row tells which sample the reindex has taken.
resample_count(data, n, column, err) ==
    LET sorted == sort_values(data)
        values == [i \in 1..Len(sorted) |-> sorted[i].x]
        unwrapped == [i \in 1..Len(sorted) |->
                         [sorted[i] EXCEPT !.x = unwrap(values)[i]]]
        r == resample(IF column = "track" THEN unwrapped ELSE data, n)
    IN  IF r.raised \/ column # "track" THEN r
        ELSE [r EXCEPT !.data =
                 [i \in 1..Len(r.data) |->
                     [r.data[i] EXCEPT !.x =
                         float_mod(@, IF cumsum_correct(values,
                                             CHOOSE j \in 1..Len(sorted) :
                                                 sorted[j].id = r.data[i].id) # 0
                                      THEN err ELSE 0)]]]

\* rule: a frequency string of period n, an integer n, or another value.
Rule(kind, n) == [kind |-> kind, n |-> n]

Rules ==
    {Rule("str", n) : n \in 1..MaxRule}
        \cup {Rule("int", n) : n \in 1..MaxRule}
        \cup {Rule("other", 0)}

\* Flight.resample(rule, how) on a table with one column besides timestamp.
resample_rule(data, rule, how, column, err) ==
    CASE rule.kind = "str" ->
             [raised |-> FALSE,
              data |-> resample_rate(data, rule.n, how, column, err)]
      [] rule.kind = "int" -> resample_count(data, rule.n, column, err)
      [] OTHER -> [raised |-> TRUE, data |-> << >>]

ResampleRule ==
    \E rule \in Rules, how \in Hows, column \in {"altitude", "track"},
       err \in {-1, 0} :
        LET r == resample_rule(heap[1], rule, how, column, err)
        IN  /\ op' = "resample_rule"
            /\ arg' = [rule |-> rule, how |-> how, column |-> column]
            /\ heap' = IF r.raised THEN <<heap[1]>> ELSE <<heap[1], r.data>>
            /\ res' = IF r.raised THEN Result("TypeError", << >>)
                                  ELSE Result("flight", <<2>>)

\* ------------------------------------------------- agg_time, apply_time
\* Series.dt.round(freq): the nearest multiple of freq, the even one when
\* two are as near.
dt_round(t, freq) ==
    LET q == t \div freq
        r == t % freq
    IN  IF 2 * r < freq THEN q * freq
        ELSE IF 2 * r > freq THEN (q + 1) * freq
        ELSE IF q % 2 = 0 THEN q * freq ELSE (q + 1) * freq

\* The feature of one group: the maximum of the column x over the rows
\* rounded to the same instant, as the text of the new column.
Feature(data, freq, rounded) ==
    LET xs == {data[i].x : i \in {j \in 1..Len(data) :
                   dt_round(data[j].t, freq) = rounded /\ data[j].x # NoPos}}
    IN  IF xs = {} THEN "nan"
        ELSE ToString(CHOOSE x \in xs : \A y \in xs : y <= x)

\* temp_flight.merge(agg_data, left_on="rounded", right_index=True): every
\* row with the feature of its group in the new column.
merge_rounded(data, freq) ==
    [i \in 1..Len(data) |->
        [data[i] EXCEPT !.tag = Feature(data, freq, dt_round(data[i].t, freq))]]

agg_time_unchecked(data, freq, features) ==
    [raised |-> FALSE, data |-> merge_rounded(data, freq)]

\* Flight.agg_time(freq, **kwargs) with the given number of features.
agg_time(data, freq, features) ==
    IF features = 0 THEN [raised |-> TRUE, data |-> << >>]
    ELSE [raised |-> FALSE, data |-> merge_rounded(data, freq)]

\* Flight.apply_time(freq, **kwargs) with the given number of features.
apply_time(data, freq, features) ==
    IF features = 0 THEN [raised |-> TRUE, data |-> << >>]
    ELSE [raised |-> FALSE, data |-> merge_rounded(data, freq)]

AggTime ==
    \E name \in {"agg_time", "apply_time"}, freq \in 1..MaxRule,
       features \in 0..1 :
        LET r == IF name = "agg_time" THEN agg_time(heap[1], freq, features)
                 ELSE apply_time(heap[1], freq, features)
        IN  /\ op' = name
            /\ arg' = Arg(freq, 0, FALSE, features)
            /\ heap' = IF r.raised THEN <<heap[1]>> ELSE <<heap[1], r.data>>
            /\ res' = IF r.raised THEN Result("RuntimeError", << >>)
                                  ELSE Result("flight", <<2>>)

\* ---------------------------------------------------------------- label
\* Flight.assign(key=value): a Flight on a new table, the column set to
\* value in every row.
assign(h, value) ==
    Append(h, [i \in 1..Len(h[1]) |-> [h[1][i] EXCEPT !.tag = value]])

loc_assign_strict(h, id, segment, value) ==
    [h EXCEPT ![id] =
        [i \in 1..Len(h[id]) |->
            IF start(segment) < h[id][i].t /\ h[id][i].t < stop(segment)
            THEN [h[id][i] EXCEPT !.tag = value]
            ELSE h[id][i]]]

\* result.data.loc[mask, key] = value, for mask the rows with
\* segment.start <= timestamp <= segment.stop: an in-place write to the
\* table with heap index id.
loc_assign(h, id, segment, value) ==
    [h EXCEPT ![id] =
        [i \in 1..Len(h[id]) |->
            IF start(segment) <= h[id][i].t /\ h[id][i].t <= stop(segment)
            THEN [h[id][i] EXCEPT !.tag = value]
            ELSE h[id][i]]]

\* The values a keyword of label takes: the literal True, or the string
\* "{i}", formatted with the index of the segment.
Values == {"True", "{i}"}

format(value, i) == IF value = "{i}" THEN ToString(i) ELSE value

\* The loop of label over enumerate(fun(self)), from segment number i on.
RECURSIVE label_loop(_, _, _, _, _)
label_loop(h, id, segments, i, value) ==
    IF Len(segments) = 0 THEN h
    ELSE label_loop(loc_assign(h, id, Head(segments), format(value, i)), id,
                    Tail(segments), i + 1, value)

\* Flight.label(method, key=value): the heap once label has returned; the
\* labelled flight wraps the last table.
label(h, segments, value) ==
    LET h1 == assign(h, IF value = "True" THEN "False" ELSE "NA")
    IN  label_loop(h1, Len(h1), segments, 0, value)

\* The segment-producing methods handed to label and to the combinators:
\* split(a) and sliding_windows(a, b).
Methods ==
    [name : {"split"}, a : Gaps, b : {0}]
        \cup [name : {"sliding_windows"}, a : Deltas, b : Deltas]

\* fun(self): the tables of the segments the method yields.
fun(method, data) ==
    IF method.name = "split" THEN _split(data, method.a)
    ELSE sliding_windows(data, method.a, method.b)

Label ==
    \E method \in Methods, value \in Values :
        LET h == label(<<heap[1]>>, fun(method, heap[1]), value)
        IN  /\ op' = "label"
            /\ arg' = [method |-> method, value |-> value]
            /\ heap' = h
            /\ res' = Result("flight", <<Len(h)>>)

\* ---------------------------------------------------------- combinators
\* Flight.sum(method): sum(1 for _ in fun(self)).
sum(method, data) == Len(fun(method, data))

\* Flight.next(method): next(fun(self), None).
next(method, data) ==
    LET it == fun(method, data)
    IN  IF Len(it) = 0 THEN NoData ELSE Some(Head(it))

\* Flight.has(method).
has(method, data) == ~next(method, data).isNone

RECURSIVE final_first(_, _)
final_first(it, segment) ==
    IF Len(it) = 0 THEN segment
    ELSE final_first(Tail(it), IF segment.isNone THEN Some(Head(it))
                               ELSE segment)

\* The loop of Flight.final: segment is rebound to each flight yielded.
RECURSIVE final_loop(_, _)
final_loop(it, segment) ==
    IF Len(it) = 0 THEN segment
    ELSE final_loop(Tail(it), Some(Head(it)))

\* Flight.final(method).
final(method, data) == final_loop(fun(method, data), NoData)

\* Traffic.__add__ over the flights summed by all: the rows of the
\* flights, one flight after the other.
RECURSIVE Traffic_add(_)
Traffic_add(tables) ==
    IF Len(tables) = 0 THEN << >>
    ELSE Head(tables) \o Traffic_add(Tail(tables))

\* Flight.all(method): the sum of flight.assign(index_=i) over
\* enumerate(fun(self)), None when the sum is the integer 0.
all(method, data) ==
    LET it == fun(method, data)
        indexed == [k \in 1..Len(it) |->
                       [j \in 1..Len(it[k]) |->
                           [it[k][j] EXCEPT !.tag = ToString(k - 1)]]]
    IN  IF Len(it) = 0 THEN NoData ELSE Some(Traffic_add(indexed))

MethodArg(method) == [method |-> method]

\* The outcome of a combinator returning a bool or an int.
Value(kind, value) == [kind |-> kind, ids |-> << >>, value |-> value]

\* A combinator returning one of the flights yielded: the flight wraps
\* the table yielded, which is self.data itself when split finds no gap.
ReturnSegment(name, method, r) ==
    IF method.name = "split" /\ fun(method, heap[1]) = <<heap[1]>>
    THEN /\ op' = name
         /\ arg' = MethodArg(method)
         /\ heap' = <<heap[1]>>
         /\ res' = Result("flight", <<1>>)
    ELSE ReturnOptional(name, MethodArg(method), r)

Has ==
    \E method \in Methods :
        /\ op' = "has"
        /\ arg' = MethodArg(method)
        /\ res' = Value("bool", has(method, heap[1]))
        /\ UNCHANGED heap

Sum ==
    \E method \in Methods :
        /\ op' = "sum"
        /\ arg' = MethodArg(method)
        /\ res' = Value("int", sum(method, heap[1]))
        /\ UNCHANGED heap

NextSegment ==
    \E method \in Methods :
        ReturnSegment("next", method, next(method, heap[1]))

Final ==
    \E method \in Methods :
        ReturnSegment("final", method, final(method, heap[1]))

All ==
    \E method \in Methods :
        ReturnOptional("all", MethodArg(method), all(method, heap[1]))

\* ----------------------------------------------------------------- clip
\* Positions lie on one axis and a shape is the convex range lo..hi of
\* that axis.  Flight.xy_time: the rows with a position, in table order.
xy_time(data) ==
    LET Positioned(r) == r.x # NoPos
    IN  SelectSeq(data, Positioned)

\* The instant at which the straight leg from sample a to sample b is at
\* position c (the third coordinate of the LineString, interpolated).
crossing(a, b, c) ==
    IF a.x < b.x
    THEN a.t + ((c - a.x) * (b.t - a.t)) \div (b.x - a.x)
    ELSE a.t + ((a.x - c) * (b.t - a.t)) \div (a.x - b.x)

NoPortion ==
    [empty |-> TRUE, te |-> 0, to |-> 0, atStart |-> FALSE, atEnd |-> FALSE]

\* The part of the leg from a to b that lies in the shape: the instants
\* of entry and exit, and whether it reaches each end of the leg.
portion(a, b, shape) ==
    IF a.x = b.x
    THEN IF shape.lo <= a.x /\ a.x <= shape.hi
         THEN [empty |-> FALSE, te |-> a.t, to |-> b.t,
               atStart |-> TRUE, atEnd |-> TRUE]
         ELSE NoPortion
    ELSE LET cl == Max2(shape.lo, Min2(a.x, b.x))
             ch == Min2(shape.hi, Max2(a.x, b.x))
             xe == IF a.x < b.x THEN cl ELSE ch
             xo == IF a.x < b.x THEN ch ELSE cl
         IN  IF cl > ch THEN NoPortion
             ELSE [empty |-> FALSE, te |-> crossing(a, b, xe),
                   to |-> crossing(a, b, xo),
                   atStart |-> xe = a.x, atEnd |-> xo = b.x]

\* linestring.intersection(shape): the connected pieces of the path inside
\* the shape, each with min(times) and max(times) of its coordinates.
\* Legs i.. of the path are still to be visited; open tells that the last
\* piece of acc reaches the sample the next leg starts from.
RECURSIVE intersection(_, _, _, _, _)
intersection(coords, shape, i, acc, open) ==
    IF i >= Len(coords) THEN acc
    ELSE LET p == portion(coords[i], coords[i + 1], shape)
             lo_ == Min2(p.te, p.to)
             hi_ == Max2(p.te, p.to)
             n == Len(acc)
         IN  IF p.empty
             THEN intersection(coords, shape, i + 1, acc, FALSE)
             ELSE IF open /\ n > 0
             THEN intersection(coords, shape, i + 1,
                      [acc EXCEPT ![n] = [t1 |-> Min2(acc[n].t1, lo_),
                                          t2 |-> Max2(acc[n].t2, hi_)]],
                      p.atEnd)
             ELSE intersection(coords, shape, i + 1,
                      Append(acc, [t1 |-> lo_, t2 |-> hi_]), p.atEnd)

Perms(n) ==
    {f \in [1..n -> 1..n] : \A i \in 1..n, j \in 1..n : i # j => f[i] # f[j]}

\* The loop of clip_iterate over the windows of _clip_generator: windows
\* k.. are still to be visited, prev is (prev_t1, prev_t2) when hasPrev,
\* out the windows handed to between so far.
RECURSIVE clip_merge(_, _, _, _, _)
clip_merge(windows, k, prev, hasPrev, out) ==
    LET flush == IF ~hasPrev THEN out ELSE Append(out, prev)
    IN  IF k > Len(windows) THEN flush
        ELSE LET w == windows[k]
             IN  IF hasPrev /\ w.t1 > prev.t2
                 THEN clip_merge(windows, k + 1, w, TRUE, flush)
                 ELSE IF ~hasPrev
                 THEN clip_merge(windows, k + 1, w, TRUE, out)
                 ELSE clip_merge(windows, k + 1,
                          [t1 |-> Min2(prev.t1, w.t1),
                           t2 |-> Max2(prev.t2, w.t2)],
                          TRUE, out)

merge_pieces_no_point(n, pieces, order) ==
    IF n < 2 THEN << >>
    ELSE IF Len(pieces) = 0 THEN << >>
    ELSE IF Len(pieces) = 1 THEN pieces
    ELSE clip_merge([k \in 1..Len(pieces) |-> pieces[order[k]]],
                    1, [t1 |-> 0, t2 |-> 0], FALSE, << >>)

\* The branches of clip_iterate on the intersection, for a path of n
\* coordinates: nothing for fewer than 2 coordinates, for an empty
\* intersection and for a Point, the window of a LineString, the merged
\* windows of a collection.
merge_pieces(n, pieces, order) ==
    IF n < 2 THEN << >>
    ELSE IF Len(pieces) = 0 THEN << >>
    ELSE IF Len(pieces) = 1
    THEN IF pieces[1].t1 = pieces[1].t2 THEN << >> ELSE pieces
    ELSE clip_merge([k \in 1..Len(pieces) |-> pieces[order[k]]],
                    1, [t1 |-> 0, t2 |-> 0], FALSE, << >>)

\* The time windows clip_iterate slices the flight with, in order.  order
\* is the order in which intersection.geoms enumerates the pieces.
clip_windows(data, shape, order) ==
    merge_pieces(Len(xy_time(data)),
                 intersection(xy_time(data), shape, 1, << >>, FALSE), order)

\* self.between(t1, t2, strict=strict) for each window, yielded when it
\* is not None.
yield_between(data, windows, strict) ==
    LET seg(k) == between(data, windows[k].t1, windows[k].t2, strict)
        Kept(k) == ~seg(k).isNone
        kept == SelectSeq([k \in 1..Len(windows) |-> k], Kept)
    IN  [j \in 1..Len(kept) |-> seg(kept[j]).data]

\* Flight.clip_iterate(shape, strict): the tables of the flights yielded.
clip_iterate(data, shape, strict, order) ==
    yield_between(data, clip_windows(data, shape, order), strict)

\* Flight.clip, once the segments of clip_iterate are known.
clip_segments(data, segments, strict) ==
    IF Len(segments) = 0 THEN NoData
    ELSE LET t1 == start(segments[1])
             t2 == stop(segments[Len(segments)])
             clipped_flight == between(data, t1, t2, strict)
         IN  IF clipped_flight.isNone THEN NoData
             ELSE IF Len(xy_time(clipped_flight.data)) < 2 THEN NoData
             ELSE clipped_flight

\* Flight.clip(shape, strict).
clip(data, shape, strict, order) ==
    clip_segments(data, clip_iterate(data, shape, strict, order), strict)

NbPieces(data, shape) ==
    Len(intersection(xy_time(data), shape, 1, << >>, FALSE))

ClipArg(shape, strict, order) ==
    [t1 |-> shape.lo, t2 |-> shape.hi, strict |-> strict, n |-> 0,
     order |-> order]

ClipIterate ==
    \E shape \in Shapes, strict \in BOOLEAN :
        \E order \in Perms(NbPieces(heap[1], shape)) :
            LET segs == clip_iterate(heap[1], shape, strict, order)
            IN  /\ op' = "clip_iterate"
                /\ arg' = ClipArg(shape, strict, order)
                /\ heap' = <<heap[1]>> \o segs
                /\ res' = Result("iter", [k \in 1..Len(segs) |-> k + 1])

Clip ==
    \E shape \in Shapes, strict \in BOOLEAN :
        \E order \in Perms(NbPieces(heap[1], shape)) :
            ReturnOptional("clip", ClipArg(shape, strict, order),
                           clip(heap[1], shape, strict, order))

\* ------------------------------------------------------ FlightIterator
\* The segment-producing calls: split(a), sliding_windows(a, b),
\* F - other for another flight spanning a..b, F[key] for an
\* IntervalCollection key, clip_iterate of the shape a..b.
IterTimes == 0..MaxIterT

IterIntervals ==
    {i \in [start : IterTimes, stop : IterTimes] : i.start <= i.stop}

\* An IntervalCollection: ordered intervals that do not overlap.
IterKeys ==
    {<<i>> : i \in IterIntervals}
        \cup {<<i, j>> : <<i, j>> \in
                  {p \in IterIntervals \X IterIntervals :
                      p[1].stop < p[2].start}}

Producer(name, a, b, strict, key, order) ==
    [name |-> name, a |-> a, b |-> b, strict |-> strict, key |-> key,
     order |-> order]

Producers(data) ==
    {Producer("split", g, 0, FALSE, << >>, << >>) : g \in IterTimes}
    \cup {Producer("sliding_windows", d, st, FALSE, << >>, << >>) :
              d \in IterTimes, st \in IterTimes}
    \cup {Producer("sub", i.start, i.stop, FALSE, << >>, << >>) :
              i \in IterIntervals}
    \cup {Producer("getitem", 0, 0, FALSE, key, << >>) : key \in IterKeys}
    \cup UNION {{Producer("clip_iterate", sh.lo, sh.hi, strict, << >>, order) :
                    order \in Perms(NbPieces(data, sh))} :
                <<sh, strict>> \in Shapes \X BOOLEAN}

\* The flights the generator of the call yields, in order.
segments(producer, data) ==
    CASE producer.name = "split" -> _split(data, producer.a)
      [] producer.name = "sliding_windows" ->
             sliding_windows(data, producer.a, producer.b)
      [] producer.name = "sub" ->
             getitem_IntervalCollection(data,
                 Interval_sub(Interval(start(data), stop(data)),
                              Interval(producer.a, producer.b)))
      [] producer.name = "getitem" ->
             getitem_IntervalCollection(data, producer.key)
      [] OTHER ->
             clip_iterate(data, [lo |-> producer.a, hi |-> producer.b],
                          producer.strict, producer.order)

\* flight_iterator: the FlightIterator wrapping the generator of one call.
\* The sequence is lazy and forward-only: cursor counts the flights taken
\* from the generator, out is what the current iteration has yielded and
\* done tells that it has ended.
flight_iterator(segs) ==
    [segs |-> segs, cursor |-> 0, pass |-> 1, out |-> << >>, done |-> FALSE]

\* One step of an iteration: the next flight of the generator, or the end.
FlightIterator_next(it) ==
    IF it.cursor < Len(it.segs)
    THEN [it EXCEPT !.cursor = @ + 1, !.out = Append(@, it.segs[it.cursor + 1])]
    ELSE [it EXCEPT !.done = TRUE]

\* Iterating the same instance again: it is not rewound.
FlightIterator_iter(it) ==
    [it EXCEPT !.pass = @ + 1, !.out = << >>, !.done = FALSE]

Iterators(its) == [kind |-> "iterators", ids |-> << >>, its |-> its]

\* A producing call on F; the same call may be made a second time.
Invoke ==
    \E producer \in Producers(heap[1]) :
        /\ \/ op = "init"
           \/ op = "iterate" /\ arg = producer /\ Len(res.its) < 2
        /\ op' = "iterate"
        /\ arg' = producer
        /\ res' = Iterators((IF op = "init" THEN << >> ELSE res.its)
                       \o <<flight_iterator(segments(producer, heap[1]))>>)
        /\ UNCHANGED heap

\* A consumer takes one more flight from one of the sequences.
NextItem ==
    /\ op = "iterate"
    /\ \E i \in 1..Len(res.its) :
         /\ ~res.its[i].done
         /\ res' = [res EXCEPT !.its[i] = FlightIterator_next(@)]
    /\ UNCHANGED <<heap, op, arg>>

\* A consumer iterates a sequence a second time after a full iteration.
Reiterate ==
    /\ op = "iterate"
    /\ \E i \in 1..Len(res.its) :
         /\ res.its[i].done
         /\ res.its[i].pass < 2
         /\ res' = [res EXCEPT !.its[i] = FlightIterator_iter(@)]
    /\ UNCHANGED <<heap, op, arg>>

\* ------------------------------------------------------- initial states
\* All tables of 1..n rows with timestamps in Times, in any row order
\* (a Flight does not sort its table), every row positioned at 0.
RowSeqs(n) == UNION {[1..k -> Times] : k \in 1..n}
TableOf(ts) == [i \in 1..Len(ts) |-> Row(ts[i], 0, i)]
Tables(n) == {TableOf(ts) : ts \in RowSeqs(n)}

InitWith(tables) ==
    /\ heap \in {<<d>> : d \in tables}
    /\ op = "init"
    /\ arg = NoArg
    /\ res = Result("none", << >>)

Init == InitWith(Tables(MaxRows))

\* A method is called on the flight as constructed.
Fresh == op = "init"

Next ==
    \/ Fresh /\ Between
    \/ Fresh /\ Before
    \/ Fresh /\ After
    \/ Fresh /\ Skip
    \/ Fresh /\ First
    \/ Fresh /\ Shorten
    \/ Fresh /\ Last
    \/ Fresh /\ BeforeAfter
    \/ Fresh /\ Sub
    \/ Fresh /\ And
    \/ Fresh /\ SlidingWindows
    \/ Fresh /\ Resample
    \/ Fresh /\ Label

Spec == Init /\ [][Next]_vars

\* ---- the gap split, on tables of up to MaxSplitRows rows and on the
\* ---- table of the documented scenario (ticks of one second)
ScenarioSplit ==
    TableOf(<<0, 1, 2, TenMinutes + 3, TenMinutes + 4>>)

SplitRowSeqs == UNION {[1..k -> 0..MaxSplitT] : k \in 1..MaxSplitRows}

\* Three runs of two rows each, for a gap of 1 tick.
ScenarioCondition == TableOf(<<0, 1, 3, 4, 6, 7>>)

InitSplit ==
    InitWith({TableOf(ts) : ts \in SplitRowSeqs}
                 \cup {ScenarioSplit, ScenarioCondition})

NextSplit ==
    \/ Fresh /\ Split
    \/ Fresh /\ SplitCondition

SpecSplit == InitSplit /\ [][NextSplit]_vars

\* ---- label, on the tables of Spec and on the flight of the documented
\* ---- scenario: 10 rows, of which rows 0-2 and rows 5-7 form the two
\* ---- segments of split for a gap of 1 tick
ScenarioLabel == TableOf(<<0, 1, 2, 10, 20, 30, 31, 32, 40, 50>>)

InitLabel == InitWith(Tables(MaxRows) \cup {ScenarioLabel})

NextLabel == Fresh /\ Label

SpecLabel == InitLabel /\ [][NextLabel]_vars

\* ---- the combinators, on the tables of Spec and on the two flights of
\* ---- several runs
InitCombinators ==
    InitWith(Tables(MaxRows) \cup {ScenarioSplit, ScenarioCondition})

NextCombinators ==
    \/ Fresh /\ Has
    \/ Fresh /\ Sum
    \/ Fresh /\ NextSegment
    \/ Fresh /\ Final
    \/ Fresh /\ All

SpecCombinators == InitCombinators /\ [][NextCombinators]_vars

\* ---- the interval operators on intervals within 0..MaxIntervalT
InitInterval ==
    /\ heap = << >>
    /\ op = "init"
    /\ arg = NoArg
    /\ res = Result("none", << >>)

NextInterval ==
    \/ Fresh /\ Difference
    \/ Fresh /\ Intersection

SpecInterval == InitInterval /\ [][NextInterval]_vars

\* ---- clipping, on flights sampled every TicksPerSample ticks, whose
\* ---- timestamps increase and whose consecutive positions differ
ClipTimeSeqs(n) ==
    {ts \in UNION {[1..k -> 0..MaxClipT] : k \in 1..n} :
        \A i \in 2..Len(ts) : ts[i - 1] < ts[i]}

Moves(xs) ==
    \A i \in 1..Len(xs), j \in 1..Len(xs) :
        (i < j /\ xs[i] # NoPos /\ xs[j] # NoPos
              /\ \A k \in (i + 1)..(j - 1) : xs[k] = NoPos)
            => xs[i] # xs[j]

ClipTables(n) ==
    {[i \in 1..Len(ts) |-> Row(ts[i] * TicksPerSample, xs[i], i)] :
        <<ts, xs>> \in
            {p \in ClipTimeSeqs(n) \X UNION {[1..k -> {NoPos} \cup (0..MaxX)]
                                                 : k \in 1..n} :
                Len(p[1]) = Len(p[2]) /\ Moves(p[2])}}

InitClip == InitWith(ClipTables(MaxClipRows))

NextClip ==
    \/ Fresh /\ ClipIterate
    \/ Fresh /\ Clip

SpecClip == InitClip /\ [][NextClip]_vars

\* ---- positions: tables in any row order, each row with a position of
\* ---- its own or none
AtTables(n) ==
    {[i \in 1..Len(ts) |-> Row(ts[i], IF i \in known THEN i ELSE NoPos, i)] :
        <<ts, known>> \in RowSeqs(n) \X SUBSET (1..n)}

InitAt == InitWith(AtTables(MaxRows))

NextAt ==
    \/ Fresh /\ At
    \/ Fresh /\ AtRatio

SpecAt == InitAt /\ [][NextAt]_vars

\* ---- sliding windows over tables sorted by timestamp
WinRowSeqs ==
    {ts \in UNION {[1..k -> 0..MaxWinT] : k \in 1..MaxWinRows} :
        \A i \in 2..Len(ts) : ts[i - 1] <= ts[i]}

InitWindows == InitWith({TableOf(ts) : ts \in WinRowSeqs})

NextWindows == Fresh /\ SlidingWindows

SpecWindows == InitWindows /\ [][NextWindows]_vars

\* ---- resample, at_ratio and agg_time on tables with one column of values
Angles == {4, 190, 356}

RateTimeSeqs ==
    {ts \in UNION {[1..k -> 0..MaxRateT] : k \in 1..MaxRateRows} :
        \A i \in 2..Len(ts) : ts[i - 1] < ts[i]}

RateTables ==
    {[i \in 1..Len(p[1]) |-> Row(p[1][i], p[2][i] * Unit, i)] :
        p \in {q \in RateTimeSeqs
                       \X UNION {[1..k -> Angles] : k \in 1..MaxRateRows} :
                   Len(q[1]) = Len(q[2])}}

InitRate == InitWith(RateTables)

NextRate ==
    \/ Fresh /\ ResampleRule
    \/ Fresh /\ AtRatio
    \/ Fresh /\ AggTime

SpecRate == InitRate /\ [][NextRate]_vars

\* ---- indexing by an Interval and by an IntervalCollection
NextGetItem == Fresh /\ GetItem

SpecGetItem == InitWindows /\ [][NextGetItem]_vars

\* ---- the sequences of segments and their consumers
\* A path that enters and leaves the middle of the axis twice.
ScenarioCrossing ==
    [i \in 1..4 |-> Row((i - 1) * TicksPerSample, <<0, 2, 0, 2>>[i], i)]

IterTables ==
    {TableOf(ts) : ts \in UNION {[1..k -> IterTimes] : k \in 1..MaxIterRows}}
        \cup {ScenarioCrossing}

InitIterator == InitWith(IterTables)

NextIterator ==
    \/ Invoke
    \/ NextItem
    \/ Reiterate

SpecIterator == InitIterator /\ [][NextIterator]_vars

\* ---- any sequence of calls on one flight
FrameTables ==
    {[i \in 1..Len(ts) |-> Row(ts[i], i % 2, i)] :
        ts \in UNION {[1..k -> 0..MaxFrameT] : k \in 1..MaxFrameRows}}

InitFrame == InitWith(FrameTables)

NextFrame ==
    \/ Between
    \/ Before
    \/ After
    \/ Skip
    \/ First
    \/ Shorten
    \/ Last
    \/ Split
    \/ SlidingWindows
    \/ Label
    \/ Resample
    \/ ClipIterate
    \/ Clip

SpecFrame == InitFrame /\ [][NextFrame]_vars

\* ------------------------------------------------ reading the results
F == heap[1]

\* The tables of the flights of the result, in order.
ResTables == [k \in 1..Len(res.ids) |-> heap[res.ids[k]]]

\* The rows of a result that is None or one Flight.
ResRows == IF res.kind = "flight" THEN heap[res.ids[1]] ELSE << >>

RECURSIVE Concat(_)
Concat(ss) == IF Len(ss) = 0 THEN << >> ELSE Head(ss) \o Concat(Tail(ss))

IsSorted(data) == \A i \in 2..Len(data) : data[i - 1].t <= data[i].t

\* rows is the rows of F whose position is in `want`, in the order of F.
IsSelection(rows, want) ==
    /\ Len(rows) = Cardinality(want)
    /\ \A k \in 1..Len(rows) : rows[k].id \in want /\ rows[k] = F[rows[k].id]
    /\ \A k \in 2..Len(rows) : rows[k - 1].id < rows[k].id

\* C1: between(t1, t2, strict=True) returns exactly the rows with
\* t1 < timestamp < t2 and between(t1, t2, strict=False) exactly the rows
\* with t1 <= timestamp <= t2 (None standing for no row); for rows at
\* 0, 5 and 10 s sliced between 0 and 10 s this is the middle row alone
\* when strict and all three rows otherwise.
C1_BetweenExact ==
    op = "between" =>
        IsSelection(ResRows,
            {i \in 1..Len(F) :
                IF arg.strict THEN arg.t1 < F[i].t /\ F[i].t < arg.t2
                              ELSE arg.t1 <= F[i].t /\ F[i].t <= arg.t2})

C1_Witness ==
    /\ op = "between"
    /\ Timestamps(F) = <<0, 1, 2>>
    /\ arg.t1 = 0 /\ arg.t2 = 2 /\ arg.strict
    /\ res.kind = "flight"
    /\ Ids(ResRows) = <<2>>

\* C2: for a flight sorted by timestamp, the segments of split(g),
\* concatenated in iteration order, are the rows of the flight: every row
\* once, in the original order.
C2_SplitKeepsEveryRow ==
    (op = "split" /\ IsSorted(F) /\ Len(F) >= 2) => Concat(ResTables) = F

\* A maximal run of F for the gap g: rows lo..hi with no delta above g
\* inside and a delta above g (or the end of the table) on each side.
IsMaximalRun(lo, hi, g) ==
    /\ 1 <= lo /\ lo <= hi /\ hi <= Len(F)
    /\ \A i \in (lo + 1)..hi : F[i].t - F[i - 1].t <= g
    /\ lo > 1 => F[lo].t - F[lo - 1].t > g
    /\ hi < Len(F) => F[hi + 1].t - F[hi].t > g

\* C3: split(g) cuts exactly at the deltas strictly greater than g: each
\* yielded segment is a maximal run of consecutive rows whose deltas are
\* all <= g, the segments come in table order, every maximal run of two
\* or more rows is yielded, a table of fewer than 2 rows yields nothing,
\* and timestamps 0, 1, 2, 603, 604 s with g = 600 s yield two segments
\* of 3 and 2 rows.
C3_SplitCutsAtGaps ==
    op = "split" =>
        LET segs == ResTables
            g == arg.n
        IN  /\ \A k \in 1..Len(segs) :
                 /\ Len(segs[k]) >= 1
                 /\ segs[k] = SubTable(F, segs[k][1].id,
                                       segs[k][Len(segs[k])].id)
                 /\ IsMaximalRun(segs[k][1].id, segs[k][Len(segs[k])].id, g)
            /\ \A k \in 2..Len(segs) :
                 segs[k - 1][Len(segs[k - 1])].id < segs[k][1].id
            /\ \A lo \in 1..Len(F), hi \in 1..Len(F) :
                 (lo < hi /\ IsMaximalRun(lo, hi, g)) =>
                     \E k \in 1..Len(segs) : segs[k] = SubTable(F, lo, hi)
            /\ Len(F) < 2 => Len(segs) = 0
            /\ (F = ScenarioSplit /\ g = TenMinutes) =>
                 [k \in 1..Len(segs) |-> Len(segs[k])] = <<3, 2>>

C3_Witness ==
    /\ op = "split"
    /\ F = ScenarioSplit
    /\ arg.n = TenMinutes
    /\ Len(res.ids) = 2

\* C4: when the span s1..s2 of S lies strictly inside the span of T,
\* T - S yields exactly two segments: the rows of T from T.start up to
\* S.start, then the rows from S.stop up to T.stop; their durations plus
\* the duration of S do not exceed the duration of T.
C4_SubtractInside ==
    (op = "sub" /\ start(F) < arg.t1 /\ arg.t2 < stop(F)) =>
        /\ Len(res.ids) = 2
        /\ LET s1 == ResTables[1]
               s2 == ResTables[2]
           IN  /\ IsSelection(s1, {i \in 1..Len(F) : F[i].t <= arg.t1})
               /\ IsSelection(s2, {i \in 1..Len(F) : F[i].t >= arg.t2})
               /\ start(s1) = start(F)
               /\ stop(s2) = stop(F)
               /\ duration(s1) + duration(s2) + (arg.t2 - arg.t1)
                      <= duration(F)

C4_Witness ==
    /\ op = "sub"
    /\ start(F) < arg.t1 /\ arg.t1 < arg.t2 /\ arg.t2 < stop(F)
    /\ Len(res.ids) = 2
    /\ \E i \in 1..Len(F) : F[i].t = arg.t1

\* The pieces chain from a.start to a.stop: the first starts at a.start,
\* each stops where the next starts, the last stops at a.stop.
Reconstructs(pieces, a) ==
    /\ Len(pieces) >= 1
    /\ pieces[1].start = a.start
    /\ pieces[Len(pieces)].stop = a.stop
    /\ \A k \in 1..Len(pieces) : pieces[k].start <= pieces[k].stop
    /\ \A k \in 2..Len(pieces) : pieces[k - 1].stop = pieces[k].start

\* The fragments of a - b and the overlap a & b, sorted by start.
PiecesOf(frags, a, b) ==
    LET ov == Interval_and(a, b)
        o == Interval(ov.start, ov.stop)
    IN  IF ov.isNone THEN frags
        ELSE IF Len(frags) = 0 THEN <<o>>
        ELSE IF Len(frags) = 2 THEN <<frags[1], o, frags[2]>>
        ELSE IF frags[1].start <= o.start THEN <<frags[1], o>>
        ELSE <<o, frags[1]>>

\* C5 as stated: for all intervals A and B, the fragments of A - B
\* together with A & B reconstruct A, with no gap and no overlap beyond
\* shared boundary points.
C5_DifferenceReconstructs ==
    op = "difference" =>
        Reconstructs(PiecesOf(res.ids, arg.a, arg.b), arg.a)

\* C5 amended: the same for every interval A of nonzero length
\* (A.start < A.stop) and every B.
C5_DifferenceReconstructsNonEmpty ==
    (op = "difference" /\ arg.a.start < arg.a.stop) =>
        /\ Len(res.ids) <= 2
        /\ Reconstructs(PiecesOf(res.ids, arg.a, arg.b), arg.a)

C5_Witness ==
    /\ op = "difference"
    /\ arg.a.start < arg.b.start /\ arg.b.start < arg.b.stop
    /\ arg.b.stop < arg.a.stop
    /\ Len(res.ids) = 2

\* The positions of the path of F, and the shape of the last clip.
PathXs == {F[i].x : i \in {j \in 1..Len(F) : F[j].x # NoPos}}
ArgShape == [lo |-> arg.t1, hi |-> arg.t2]

\* C6: for a convex shape that fully contains the path of T, T.clip(S)
\* returns a flight with the rows of T, first and last row included; for a
\* shape disjoint from the bounding region of T, T.clip(S) returns None.
C6_ClipContainment ==
    (op = "clip" /\ arg.strict /\ Len(xy_time(F)) >= 2) =>
        /\ (\A x \in PathXs : ArgShape.lo <= x /\ x <= ArgShape.hi) =>
               (res.kind = "flight" /\ ResRows = F)
        /\ (\A x \in PathXs : x < ArgShape.lo \/ x > ArgShape.hi) =>
               res.kind = "none"

\* C7: resample(N) returns exactly N rows for every flight of at least 2
\* rows and nonzero duration, repeated timestamps included; the first
\* output timestamp is start, the last is stop, and each output row copies
\* the original sample nearest in time.
C7_ResampleCount ==
    (op = "resample" /\ Len(F) >= 2 /\ duration(F) > 0 /\ arg.n >= 2) =>
        /\ res.kind = "flight"
        /\ Len(ResRows) = arg.n
        /\ ResRows[1].t = start(F)
        /\ ResRows[arg.n].t = stop(F)
        /\ \A k \in 1..Len(ResRows) :
             LET src == F[ResRows[k].id]
                 d == IF src.t >= ResRows[k].t THEN src.t - ResRows[k].t
                      ELSE ResRows[k].t - src.t
             IN  /\ ResRows[k] = [src EXCEPT !.t = ResRows[k].t]
                 /\ \A j \in 1..Len(F) :
                      d <= (IF F[j].t >= ResRows[k].t
                            THEN F[j].t - ResRows[k].t
                            ELSE ResRows[k].t - F[j].t)

\* C9: no operation mutates the flight it is called on: after any
\* sequence of calls the table of F is what it was, and every flight
\* returned wraps a table distinct from the table of F.
C9_NoMutationNoSharing ==
    [][/\ heap'[1] = heap[1]
       /\ \A k \in 1..Len(res'.ids) : res'.ids[k] # 1]_vars

\* C10: A & B is None when the spans do not overlap (max of the starts >=
\* min of the stops) and otherwise the rows of A whose timestamp lies in
\* the overlap, from max(A.start, B.start) to min(A.stop, B.stop); A & A
\* has the rows of A.
C10_AndIsOverlap ==
    op = "and" =>
        LET s == Max2(start(F), arg.t1)
            e == Min2(stop(F), arg.t2)
        IN  /\ s >= e => res.kind = "none"
            /\ s < e =>
                 IsSelection(ResRows,
                     {i \in 1..Len(F) : s <= F[i].t /\ F[i].t <= e})
            /\ (arg.t1 = start(F) /\ arg.t2 = stop(F) /\ s < e) =>
                 ResRows = F

\* The time predicate of each slicing method, on a row timestamp t.
Selects(t) ==
    CASE op = "between" -> IF arg.strict THEN arg.t1 < t /\ t < arg.t2
                                         ELSE arg.t1 <= t /\ t <= arg.t2
      [] op = "before"  -> IF arg.strict THEN start(F) < t /\ t < arg.t2
                                         ELSE start(F) <= t /\ t <= arg.t2
      [] op = "after"   -> IF arg.strict THEN arg.t1 < t /\ t < stop(F)
                                         ELSE arg.t1 <= t /\ t <= stop(F)
      [] op = "first"   -> t < start(F) + arg.n
      [] op = "skip"    -> t >= start(F) + arg.n
      [] op = "last"    -> t > stop(F) - arg.n
      [] op = "shorten" -> t <= stop(F) - arg.n
      [] OTHER          -> FALSE

SlicingOps ==
    {"between", "before", "after", "first", "last", "skip", "shorten"}

\* C8: between, before, after, first, last, skip and shorten never raise
\* and never return a Flight of zero rows: the result is None exactly
\* when no row satisfies the time predicate of the method, and otherwise
\* a Flight of at least one row.
C8_NoneIffNoRow ==
    op \in SlicingOps =>
        /\ res.kind \in {"none", "flight"}
        /\ res.kind = "none" <=> \A i \in 1..Len(F) : ~Selects(F[i].t)
        /\ res.kind = "flight" => Len(heap[res.ids[1]]) >= 1

C8_Witness ==
    /\ op = "skip"
    /\ res.kind = "none"
    /\ Len(F) >= 2

\* C11: for t1 < t2, F.before(t2).after(t1) selects exactly the rows that
\* F.between(t1, t2) selects: the rows of F with t1 < timestamp < t2.
C11_BeforeAfterIsBetween ==
    (op = "before_after" /\ arg.t1 < arg.t2 /\ res.kind # "raise") =>
        /\ ResRows = between(F, arg.t1, arg.t2, TRUE).data
        /\ IsSelection(ResRows,
               {i \in 1..Len(F) : arg.t1 < F[i].t /\ F[i].t < arg.t2})

\* The rows of an Optional result, as positions in F.
IdSet(r) == {r.data[k].id : k \in 1..Len(r.data)}

\* The results a and b hold rows of F unchanged and in the order of F,
\* and every row of F is in exactly one of them.
Partition(a, b) ==
    /\ IsSelection(a.data, IdSet(a))
    /\ IsSelection(b.data, IdSet(b))
    /\ IdSet(a) \cap IdSet(b) = {}
    /\ IdSet(a) \cup IdSet(b) = 1..Len(F)

ResOptional == IF res.kind = "flight" THEN Some(ResRows) ELSE NoData

\* C12: for every duration d, first(d) and skip(d) partition the rows of
\* F: every row is in exactly one of the two results; last(d) and
\* shorten(d) likewise.
C12_FirstSkipPartition ==
    /\ op = "first" => Partition(ResOptional, skip(F, arg.n))
    /\ op = "skip" => Partition(first(F, arg.n), ResOptional)
    /\ op = "last" => Partition(ResOptional, shorten(F, arg.n))
    /\ op = "shorten" => Partition(last(F, arg.n), ResOptional)

C12_Witness ==
    /\ op = "first"
    /\ Len(F) = 3
    /\ res.kind = "flight"
    /\ Len(ResRows) = 2
    /\ ~skip(F, arg.n).isNone

\* The rows of F at or before the instant of the last at_ratio call.
UpTo == LET Keep(r) == r.t <= ratio_instant(F, arg.n) IN SelectSeq(F, Keep)

\* C13 as stated: for r in [0, 1], at_ratio(r) returns what
\* at(start + r * duration) returns, the position sampled exactly at
\* that instant.
C13_AtRatioIsAt ==
    (op = "at_ratio" /\ 0 <= arg.n /\ arg.n <= RatioSteps) =>
        LET exact == at(F, ratio_instant(F, arg.n))
        IN  res.kind = exact.kind /\ res.rows = exact.rows

\* C13 amended: for r in [0, 1], at_ratio(r) returns the last known
\* position at the instant start + r * duration: the last row, in table
\* order, among the rows with timestamp <= that instant, its missing
\* values forward-filled from the rows selected before it; when F is
\* sorted and exactly one row carries that instant, this is the row
\* at(start + r * duration) returns, forward-filled.
C13_AtRatioIsLastKnown ==
    (op = "at_ratio" /\ 0 <= arg.n /\ arg.n <= RatioSteps) =>
        /\ res.kind = "position"
        /\ Len(UpTo) >= 1
        /\ res.rows = <<ffill(UpTo)[Len(UpTo)]>>
        /\ LET exact == at(F, ratio_instant(F, arg.n))
           IN  (IsSorted(F) /\ exact.kind = "position") =>
                   res.rows[1] = [exact.rows[1] EXCEPT !.x = res.rows[1].x]

C13_Witness ==
    /\ op = "at_ratio"
    /\ Timestamps(F) = <<0, 1, 4>>
    /\ arg.n = 2
    /\ F[1].x # NoPos /\ F[2].x = NoPos
    /\ res.kind = "position"
    /\ res.rows[1].id = 2 /\ res.rows[1].x = F[1].x
    /\ at(F, ratio_instant(F, arg.n)).kind = "none"

\* at_ratio(k / RatioSteps) is a position with timestamp in
\* [start, stop], F.start for ratio 0 and F.stop for ratio 1, and no
\* smaller ratio gives a later timestamp.
AtRatioInRange ==
    /\ res.kind = "position"
    /\ start(F) <= res.rows[1].t /\ res.rows[1].t <= stop(F)
    /\ arg.n = 0 => res.rows[1].t = start(F)
    /\ arg.n = RatioSteps => res.rows[1].t = stop(F)
    /\ \A j \in 0..arg.n :
         /\ at_ratio(F, j).kind = "position"
         /\ at_ratio(F, j).rows[1].t <= res.rows[1].t

\* C14 as stated: for every flight F, at_ratio(0) is the position with
\* timestamp F.start, at_ratio(1) the position with timestamp F.stop, and
\* for every r in [0, 1] at_ratio(r) is not None, with a timestamp in
\* [F.start, F.stop] that is non-decreasing in r.
C14_AtRatioEnds ==
    (op = "at_ratio" /\ 0 <= arg.n /\ arg.n <= RatioSteps) => AtRatioInRange

\* C14 amended: the same for every flight F sorted by timestamp.
C14_AtRatioEndsSorted ==
    (op = "at_ratio" /\ 0 <= arg.n /\ arg.n <= RatioSteps /\ IsSorted(F)) =>
        AtRatioInRange

C14_Witness ==
    /\ op = "at_ratio"
    /\ Timestamps(F) = <<0, 2, 4>>
    /\ arg.n = RatioSteps
    /\ res.kind = "position"
    /\ res.rows[1].t = 4

\* The number of rows of the first k tables of ss.
RowsUpTo(ss, k) == Len(Concat(SubSeq(ss, 1, k)))

\* C15: split(g, condition=c) walks the candidate segments of split(g)
\* in order and accumulates them: where c(accumulated, candidate) is
\* false the candidate is concatenated to the accumulated segment, where
\* it is true the accumulated segment is yielded and the candidate starts
\* the next one.  With c always false one segment holding all candidate
\* rows is yielded; with c always true the output is that of split(g).
C15_SplitCondition ==
    op = "split_condition" =>
        LET cands == _split(F, arg.n)
            segs == ResTables
            n == Len(cands)
            c == arg.cond
        IN  /\ n = 0 => Len(segs) = 0
            /\ n >= 1 =>
                 /\ Len(segs) = 1 + Cardinality({k \in 1..(n - 1) : c[k]})
                 /\ Concat(segs) = Concat(cands)
                 /\ \A k \in 1..(n - 1) :
                      c[k] <=> \E j \in 1..(Len(segs) - 1) :
                                  RowsUpTo(segs, j) = RowsUpTo(cands, k)
            /\ (n >= 1 /\ \A k \in 1..(n - 1) : ~c[k]) =>
                 segs = <<Concat(cands)>>
            /\ (\A k \in 1..(n - 1) : c[k]) => segs = cands

C15_Witness ==
    /\ op = "split_condition"
    /\ F = ScenarioCondition
    /\ arg.n = 1
    /\ arg.cond = <<FALSE, TRUE>>
    /\ Len(res.ids) = 2
    /\ Timestamps(ResTables[1]) = <<0, 1, 3, 4>>
    /\ Timestamps(ResTables[2]) = <<6, 7>>

\* The pieces of the path of F inside the shape of the last clip, and the
\* windows clip_iterate sliced F with.
Pieces == intersection(xy_time(F), ArgShape, 1, << >>, FALSE)
Windows == clip_windows(F, ArgShape, arg.order)

Touches(p, q) == p.t1 <= q.t2 /\ q.t1 <= p.t2

\* The pieces linked to the pieces of S by a chain of at most n
\* overlapping or touching pieces.
RECURSIVE Group(_, _)
Group(S, n) ==
    IF n = 0 THEN S
    ELSE Group(S \cup {q \in 1..Len(Pieces) :
                          \E p \in S : Touches(Pieces[p], Pieces[q])}, n - 1)

Hull(S) ==
    [t1 |-> CHOOSE t \in {Pieces[p].t1 : p \in S} :
                \A p \in S : t <= Pieces[p].t1,
     t2 |-> CHOOSE t \in {Pieces[p].t2 : p \in S} :
                \A p \in S : t >= Pieces[p].t2]

\* C16: when the intersection has several pieces, clip_iterate merges
\* the windows of the pieces that overlap or touch in time, whatever the
\* order in which the pieces are enumerated: there is one window per
\* maximal group of overlapping or touching pieces, every piece is
\* covered by exactly one window, and each window ends strictly before
\* the next one starts.
C16_ClipMergesWindows ==
    (op = "clip_iterate" /\ Len(Pieces) >= 2) =>
        /\ {Windows[k] : k \in 1..Len(Windows)} =
               {Hull(Group({p}, Len(Pieces))) : p \in 1..Len(Pieces)}
        /\ \A p \in 1..Len(Pieces) :
             Cardinality({k \in 1..Len(Windows) :
                 /\ Windows[k].t1 <= Pieces[p].t1
                 /\ Pieces[p].t2 <= Windows[k].t2}) = 1
        /\ \A k \in 2..Len(Windows) : Windows[k - 1].t2 < Windows[k].t1

\* C17: whenever clip_iterate(S, strict) yields at least one segment,
\* clip(S, strict) returns a flight that holds every row of every
\* segment yielded, and the rows of F in between.
C17_ClipCoversSegments ==
    op = "clip" =>
        LET segs == clip_iterate(F, ArgShape, arg.strict, arg.order)
            rows == Concat(segs)
        IN  Len(segs) >= 1 =>
                /\ res.kind = "flight"
                /\ \A i \in 1..Len(F) :
                     (start(rows) <= F[i].t /\ F[i].t <= stop(rows)) =>
                         \E k \in 1..Len(ResRows) : ResRows[k] = F[i]

\* The clock ticks at which the path of F, interpolated between
\* consecutive positioned samples, is inside the shape of the last clip.
InsideTicks ==
    LET c == xy_time(F)
    IN  UNION {{tau \in c[i].t..c[i + 1].t :
                  LET dt == c[i + 1].t - c[i].t
                      xdt == c[i].x * dt + (c[i + 1].x - c[i].x) * (tau - c[i].t)
                  IN  ArgShape.lo * dt <= xdt /\ xdt <= ArgShape.hi * dt}
               : i \in 1..(Len(c) - 1)}

\* C18: when F has fewer than two positioned samples, when its path does
\* not intersect the shape, or when the intersection is a single point,
\* clip returns None without raising and clip_iterate yields nothing.
C18_ClipDegenerate ==
    (op \in {"clip", "clip_iterate"}
        /\ (Len(xy_time(F)) < 2 \/ Cardinality(InsideTicks) <= 1)) =>
            /\ op = "clip" => res.kind = "none"
            /\ op = "clip_iterate" => res = Result("iter", << >>)

C18_Witness ==
    /\ op = "clip_iterate"
    /\ ~arg.strict
    /\ Len(xy_time(F)) = 3
    /\ Cardinality(InsideTicks) = 1
    /\ \E i \in 1..Len(F) : F[i].t \in InsideTicks
    /\ res = Result("iter", << >>)

\* The segments of the method of the last call that cover the instant t.
Covering(t) ==
    LET segs == fun(arg.method, F)
    IN  {k \in 1..Len(segs) : start(segs[k]) <= t /\ t <= stop(segs[k])}

SetMax(S) == CHOOSE m \in S : \A k \in S : k <= m

\* C19: label(m, key=value) returns a flight with the rows of F in the
\* same order plus the column key: the column holds the default (False
\* when value is the literal True, null otherwise) except in the rows
\* whose timestamp lies in [segment.start, segment.stop] for a segment
\* yielded by m, which hold the value of that segment (of the last such
\* segment when several cover the row).  For the 10-row flight whose
\* segments cover rows 0-2 and 5-7, those six rows hold the value and
\* rows 3, 4, 8, 9 the default.
C19_LabelWritesSegments ==
    op = "label" =>
        /\ res.kind = "flight"
        /\ Len(ResRows) = Len(F)
        /\ \A i \in 1..Len(F) :
             /\ [ResRows[i] EXCEPT !.tag = "absent"] = F[i]
             /\ ResRows[i].tag =
                  IF Covering(F[i].t) = {}
                  THEN (IF arg.value = "True" THEN "False" ELSE "NA")
                  ELSE IF arg.value = "True" THEN "True"
                  ELSE ToString(SetMax(Covering(F[i].t)) - 1)
        /\ (F = ScenarioLabel /\ arg.method.name = "split"
                /\ arg.method.a = 1 /\ arg.value = "True") =>
               [i \in 1..Len(F) |-> ResRows[i].tag] =
                   <<"True", "True", "True", "False", "False",
                     "True", "True", "True", "False", "False">>

C19_Witness ==
    /\ op = "label"
    /\ F = ScenarioLabel
    /\ arg.method = [name |-> "split", a |-> 1, b |-> 0]
    /\ arg.value = "{i}"
    /\ [i \in 1..Len(F) |-> ResRows[i].tag] =
           <<"0", "0", "0", "NA", "NA", "1", "1", "1", "NA", "NA">>

Combinators == {"has", "sum", "next", "final", "all"}

\* The five combinators, called on F with the method of the last call.
HasF == has(arg.method, F)
SumF == sum(arg.method, F)
NextF == next(arg.method, F)
FinalF == final(arg.method, F)
AllF == all(arg.method, F)

\* C20: for one flight and one method m, has(m) is true iff next(m) is
\* not None iff final(m) is not None iff sum(m) >= 1 iff all(m) is not
\* None; next(m) is the first segment m yields and final(m) the last,
\* the same segment when sum(m) = 1.
C20_CombinatorsAgree ==
    op \in Combinators =>
        LET segs == fun(arg.method, F)
            held == CASE op = "has" -> res.value
                      [] op = "sum" -> res.value >= 1
                      [] OTHER -> res.kind = "flight"
        IN  /\ held = HasF
            /\ held = ~NextF.isNone
            /\ held = ~FinalF.isNone
            /\ held = (SumF >= 1)
            /\ held = ~AllF.isNone
            /\ op = "sum" => res.value = Len(segs)
            /\ (op = "next" /\ held) => ResRows = segs[1]
            /\ (op = "final" /\ held) => ResRows = segs[Len(segs)]
            /\ SumF = 1 => NextF = FinalF
            /\ (op \in {"next", "final"} /\ SumF = 1) => ResRows = segs[1]

C20_Witness ==
    /\ op = "final"
    /\ F = ScenarioCondition
    /\ arg.method = [name |-> "split", a |-> 1, b |-> 0]
    /\ SumF = 3
    /\ res.kind = "flight"
    /\ Timestamps(ResRows) = <<6, 7>>

IsPrefix(a, b) == Len(a) <= Len(b) /\ a = SubSeq(b, 1, Len(a))

\* Two sequences from the same call yield, each on its own, the segments
\* of the call in order, wherever the other one stands.
IndependentSequences ==
    op = "iterate" =>
        \A i \in 1..Len(res.its) :
            res.its[i].pass = 1 =>
                /\ IsPrefix(res.its[i].out, segments(arg, F))
                /\ res.its[i].done => res.its[i].out = segments(arg, F)

\* C21: every segment-producing call returns an independent fresh
\* sequence: two sequences from the same call on the same flight yield
\* the same segments in the same order whatever the interleaving of
\* their consumption; and the result of F - S, iterated a second time
\* after a full first iteration, yields the same segments again.
C21_FreshSequences ==
    /\ IndependentSequences
    /\ (op = "iterate" /\ arg.name = "sub") =>
           \A i \in 1..Len(res.its) :
               (res.its[i].pass = 2 /\ res.its[i].done) =>
                   res.its[i].out = segments(arg, F)

\* C22: sliding_windows(duration, step) yields windows only until the
\* remaining trajectory is shorter than duration: no window is taken from
\* a remainder whose own duration is shorter than duration, and the
\* recursion stops where first(duration) on the remainder is None.
C22_WindowsOfFullDuration ==
    op = "sliding_windows" =>
        LET remainders == sliding_remainders(F, arg.t1, arg.t2)
        IN  /\ Len(remainders) = Len(res.ids)
            /\ \A k \in 1..Len(res.ids) :
                   /\ ResTables[k] = first(remainders[k], arg.t1).data
                   /\ duration(remainders[k]) >= arg.t1
            /\ sliding_stop(F, arg.t1, arg.t2) = "first"

\* F is sampled at the regular period p.
Regular(p) ==
    \A i \in 2..Len(F) : F[i].t - F[i - 1].t = p

\* C23: successive windows advance by step: for a flight sampled at a
\* regular period that divides step, the start of the (k+1)-th window is
\* the start of the k-th window plus step.
C23_WindowsAdvanceByStep ==
    (op = "sliding_windows"
        /\ \E p \in 1..MaxWinT : Regular(p) /\ arg.t2 % p = 0) =>
        \A k \in 1..(Len(res.ids) - 1) :
            start(ResTables[k + 1]) = start(ResTables[k]) + arg.t2

\* The original sample of F that is the latest at or before the instant t,
\* and the earliest at or after it.
LatestAtOrBefore(t) ==
    CHOOSE i \in 1..Len(F) :
        F[i].t <= t /\ \A j \in 1..Len(F) : F[j].t <= t => F[j].t <= F[i].t

EarliestAtOrAfter(t) ==
    CHOOSE i \in 1..Len(F) :
        F[i].t >= t /\ \A j \in 1..Len(F) : F[j].t >= t => F[j].t >= F[i].t

\* The value on the straight line between the samples around the instant t.
LinearAt(t) ==
    LET a == F[LatestAtOrBefore(t)]
        b == F[EarliestAtOrAfter(t)]
    IN  IF a.t = b.t THEN a.x
        ELSE a.x + ((b.x - a.x) * (t - a.t)) \div (b.t - a.t)

\* A rate-based resample of samples that all lie on the grid of the rule.
RateOnGrid ==
    /\ op = "resample_rule"
    /\ arg.rule.kind = "str"
    /\ \A i \in 1..Len(F) : F[i].t % arg.rule.n = 0

\* The result is on the regular grid and its column follows the method
\* the column is listed under.
FollowsStrategy ==
    /\ res.kind = "flight"
    /\ Len(ResRows) = (stop(F) - start(F)) \div arg.rule.n + 1
    /\ \A k \in 1..Len(ResRows) :
         LET t == start(F) + (k - 1) * arg.rule.n
         IN  /\ ResRows[k].t = t
             /\ arg.how.meth = "ffill" =>
                    ResRows[k].x = F[LatestAtOrBefore(t)].x
             /\ (arg.how.meth = "interpolate" /\ arg.column # "track") =>
                    ResRows[k].x = LinearAt(t)
             /\ arg.how.meth = "none" =>
                    ResRows[k].x = IF \E i \in 1..Len(F) : F[i].t = t
                                   THEN F[LatestAtOrBefore(t)].x ELSE NoPos

\* C24: rate-based resample follows the per-column strategy map: the
\* result is on the regular grid of the rule; a column listed under ffill
\* holds at every grid instant the value of the latest original sample at
\* or before it, a column listed under interpolate the linear
\* interpolation between the surrounding samples, and a column listed
\* under no method its original values at original instants and null at
\* every new grid instant.
C24_ResampleFollowsStrategy == RateOnGrid => FollowsStrategy

\* The same for the columns that resample does not unwrap.
PlainColumnFollowsStrategy ==
    (RateOnGrid /\ arg.column # "track") => FollowsStrategy

\* The length of the shorter arc between two angles.
Arc(p, q) == Min2((p - q) % Turn, (q - p) % Turn)

\* C25: after resample (rate- or count-based) every track value of the
\* result lies in [0, 360), and the values interpolated between two
\* consecutive samples lie on the shorter arc between them.
C25_TrackOnShorterArc ==
    (op = "resample_rule" /\ arg.column = "track" /\ res.kind = "flight") =>
        /\ \A k \in 1..Len(ResRows) :
               ResRows[k].x # NoPos =>
                   0 <= ResRows[k].x /\ ResRows[k].x < Turn
        /\ RateOnGrid =>
               \A k \in 1..Len(ResRows), i \in 1..(Len(F) - 1) :
                   (F[i].t < ResRows[k].t /\ ResRows[k].t < F[i + 1].t
                        /\ ResRows[k].x # NoPos) =>
                       Arc(F[i].x, ResRows[k].x) + Arc(ResRows[k].x, F[i + 1].x)
                           = Arc(F[i].x, F[i + 1].x)

\* The rows of F that carry the timestamp of the last at call.
Hits == {i \in 1..Len(F) : F[i].t = arg.t1}

\* The last value of the column x that is not null, null if there is none.
LastKnown ==
    LET known == {j \in 1..Len(F) : F[j].x # NoPos}
    IN  IF known = {} THEN NoPos
        ELSE F[CHOOSE j \in known : \A m \in known : m <= j].x

\* C26: F.at(t) returns the row whose timestamp equals t when such a row
\* exists, and None, without raising, when no row carries exactly the
\* timestamp t (no nearest-sample fallback); at() with no argument returns
\* the last row of the table after forward-filling missing values.
C26_AtIsExact ==
    op = "at" =>
        /\ res.kind # "raise"
        /\ (arg.t1 # NoTime /\ Hits = {}) => res.kind = "none"
        /\ (arg.t1 # NoTime /\ Cardinality(Hits) = 1) =>
               /\ res.kind = "position"
               /\ \A i \in Hits : res.rows = <<F[i]>>
        /\ arg.t1 = NoTime =>
               /\ res.kind = "position"
               /\ res.rows = <<[F[Len(F)] EXCEPT !.x = LastKnown]>>

\* at() on a table whose last row has no position, filled from an earlier
\* row.
C26_Witness ==
    /\ op = "at"
    /\ arg.t1 = NoTime
    /\ Len(F) = 3
    /\ F[1].x # NoPos /\ F[2].x # NoPos /\ F[3].x = NoPos
    /\ res.kind = "position"
    /\ res.rows[1].id = 3 /\ res.rows[1].x = F[2].x

\* C27: invalid arguments raise and produce no result: at_ratio(r) with
\* r < 0 or r > 1 raises RuntimeError, resample(rule) with a rule that is
\* neither a string nor an integer raises TypeError, agg_time and
\* apply_time with no aggregation field raise RuntimeError; in each case
\* the flight is left unchanged.
C27_InvalidArgumentsRaise ==
    [][/\ (op' = "at_ratio" /\ (arg'.n < 0 \/ arg'.n > RatioSteps)) =>
            res'.kind = "RuntimeError" /\ res'.rows = << >> /\ heap' = heap
       /\ (op' = "resample_rule" /\ arg'.rule.kind = "other") =>
            res'.kind = "TypeError" /\ res'.ids = << >> /\ heap' = heap
       /\ (op' \in {"agg_time", "apply_time"} /\ arg'.n = 0) =>
            res'.kind = "RuntimeError" /\ res'.ids = << >> /\ heap' = heap
      ]_vars

\* agg_time without any feature has raised on a table of three rows.
C27_Witness ==
    /\ op = "agg_time"
    /\ arg.n = 0
    /\ Len(F) = 3
    /\ res.kind = "RuntimeError"
    /\ heap = <<F>>

\* C28: the recursive gap split terminates on every finite table:
\* whenever the largest gap exceeds the threshold, both parts passed to
\* the recursive calls (rows before the gap, rows from the gap on) are
\* non-empty and strictly smaller than the table being split, so the
\* recursion depth and the number of yielded segments are bounded by the
\* row count.
C28_SplitTerminates ==
    op = "split" =>
        LET calls == _split_calls(F, arg.n, 1)
        IN  /\ \A c \in 1..Len(calls) :
                   LET d == calls[c].data
                   IN  /\ calls[c].depth <= Len(F)
                       /\ (Len(d) >= 2 /\ diff(d)[argmax(d)] > arg.n) =>
                              /\ Len(_split_parts(d)[1]) >= 1
                              /\ Len(_split_parts(d)[2]) >= 1
                              /\ Len(_split_parts(d)[1]) < Len(d)
                              /\ Len(_split_parts(d)[2]) < Len(d)
                              /\ _split_parts(d)[1] \o _split_parts(d)[2] = d
            /\ Len(res.ids) <= Len(F)
            /\ Len(res.ids) = Cardinality({c \in 1..Len(calls) :
                   /\ Len(calls[c].data) >= 2
                   /\ diff(calls[c].data)[argmax(calls[c].data)] <= arg.n})

\* A split that recursed twice before it yielded a segment.
C28_Witness ==
    /\ op = "split"
    /\ Len(F) = 4
    /\ Len(res.ids) >= 1
    /\ \E c \in 1..Len(_split_calls(F, arg.n, 1)) :
           /\ _split_calls(F, arg.n, 1)[c].depth = 3
           /\ Len(_split_calls(F, arg.n, 1)[c].data) >= 2

\* C29: sliding_windows(duration, step) terminates for every finite
\* flight, every duration > 0 and every step >= 0, step = 0 included: the
\* remainder passed to each recursive call has strictly fewer rows than
\* the flight it was taken from, so the number of yielded windows is
\* bounded by the row count.
C29_SlidingWindowsTerminates ==
    (op = "sliding_windows" /\ arg.t1 > 0 /\ arg.t2 >= 0) =>
        LET remainders == sliding_remainders(F, arg.t1, arg.t2)
        IN  /\ remainders[1] = F
            /\ \A k \in 2..Len(remainders) :
                   /\ Len(remainders[k]) < Len(remainders[k - 1])
                   /\ remainders[k] =
                          after(remainders[k - 1],
                                start(remainders[k - 1]) + arg.t2, TRUE).data
            /\ Len(res.ids) = Len(remainders)
            /\ Len(res.ids) <= Len(F)

\* With step 0 a second window came from the two middle rows of a flight
\* of four rows.
C29_Witness ==
    /\ op = "sliding_windows"
    /\ arg.t1 > 0
    /\ arg.t2 = 0
    /\ Len(F) = 4
    /\ Len(res.ids) = 2
    /\ Len(sliding_remainders(F, arg.t1, arg.t2)[2]) = 2

\* C30: indexing by an Interval and by an IntervalCollection agree: F[I]
\* has the same rows as the single segment of F[IntervalCollection
\* containing only I], the rows whose timestamp equals I.start or I.stop
\* included, and F[I] is None exactly when the collection indexing yields
\* no segment.
C30_IntervalAgreesWithCollection ==
    op = "getitem" =>
        IF arg.collection
        THEN LET r == getitem_Interval(F, arg.key)
             IN  /\ r.isNone <=> res.ids = << >>
                 /\ ~r.isNone => ResTables = <<r.data>>
        ELSE LET segs == getitem_IntervalCollection(F, <<arg.key>>)
             IN  /\ res.kind = "none" <=> segs = << >>
                 /\ res.kind = "flight" => segs = <<ResRows>>

====
